---- MODULE Spec2Model ----
(***************************************************************************)
(* Financial-Document-Analyzer: the front door (main.py, bonus_main.py),   *)
(* the crew pipeline (run_crew over the tasks of task.py), the RQ priority *)
(* queue and its workers (bonus_queue_system.py) and the result store      *)
(* (bonus_database.py).                                                    *)
(***************************************************************************)
EXTENDS Integers, Sequences, FiniteSets, TLC

\* ------------------------------------------------------------------ bounds
\* How many uuid4 values (upload file ids, record ids) one behaviour may draw.
MaxUuid == 2
\* How many times the wall clock (seconds of datetime.now()) may tick.
MaxTime == 1
\* How many times one risk keyword is repeated in a text given to RiskTool.
MaxMentions == 21

\* ------------------------------------------------------- program constants
\* 10 * 1024 * 1024, the upload size limit of the analyze endpoints.
MaxUploadBytes == 10485760

None == "None"

\* The two worker processes of the deployment under study.
Workers == {"w1", "w2"}

\* ------------------------------------------------------------------- text
\* Strings are sequences of one-character strings; str.strip() removes the
\* leading and trailing whitespace.
RECURSIVE LStrip(_)
LStrip(s) == IF s # <<>> /\ Head(s) = " " THEN LStrip(Tail(s)) ELSE s

RECURSIVE RStrip(_)
RStrip(s) ==
    IF s # <<>> /\ s[Len(s)] = " " THEN RStrip(SubSeq(s, 1, Len(s) - 1)) ELSE s

Strip(s) == RStrip(LStrip(s))

\* Form(default=...) of bonus_main.py and of main.py, as one-symbol texts.
DEFAULT_QUERY == <<"P">>
MAIN_DEFAULT_QUERY == <<"A">>

\* A cleaning that strips and never puts the default in.
CleanQuery_NoDefault(query) == Strip(query)

\* bonus_main.py: if not query or query.strip() == "": query = default;
\* query = query.strip()
CleanQuery(query) ==
    IF query = <<>> \/ Strip(query) = <<>>
    THEN Strip(DEFAULT_QUERY)
    ELSE Strip(query)

\* main.py: query = query.strip() or default
MainCleanQuery(query) ==
    IF Strip(query) = <<>> THEN MAIN_DEFAULT_QUERY ELSE Strip(query)

\* str.lower() on the extension of a file name.
Lower(ext) == IF ext = "PDF" THEN "pdf" ELSE ext

\* file.filename.lower().endswith('.pdf')
EndsWithPdf(upload) == Lower(upload.ext) = "pdf"

\* ------------------------------------------------------- document reader
\* Page texts are sequences of characters: "a" and "b" are text, " " is a
\* space and "\n" a newline.
Whitespace == {" ", "\n"}

\* str.replace(old, new): the occurrences of old, left to right, not
\* overlapping, are replaced.
RECURSIVE Replace(_, _, _)
Replace(s, old, new) ==
    IF Len(s) < Len(old) THEN s
    ELSE IF SubSeq(s, 1, Len(old)) = old
    THEN new \o Replace(SubSeq(s, Len(old) + 1, Len(s)), old, new)
    ELSE <<Head(s)>> \o Replace(Tail(s), old, new)

RECURSIVE StripText(_)
StripText(s) ==
    IF s # <<>> /\ Head(s) \in Whitespace THEN StripText(Tail(s))
    ELSE IF s # <<>> /\ s[Len(s)] \in Whitespace
    THEN StripText(SubSeq(s, 1, Len(s) - 1))
    ELSE s

\* content.replace('\n\n\n', '\n\n').replace('  ', ' ').strip()
CleanPage(content) ==
    StripText(Replace(Replace(content, <<"\n", "\n", "\n">>, <<"\n", "\n">>),
                      <<" ", " ">>, <<" ">>))

\* The loop over docs: a page whose cleaned content is not empty adds its
\* header (the page number) and the content to full_report.
RECURSIVE FullReport(_, _)
FullReport(docs, i) ==
    IF i > Len(docs) THEN <<>>
    ELSE (IF CleanPage(docs[i]) # <<>> THEN <<[page |-> i, content |-> CleanPage(docs[i])]>>
          ELSE <<>>) \o FullReport(docs, i + 1)

ErrorText(msg) == [kind |-> "error", text |-> msg]

\* A reader that lets the exception of the loader go up to its caller.
ReadFailure_Raises(e) == [kind |-> "raised", text |-> e]

\* except Exception as e: return f"Error reading PDF file: {str(e)}. ..."
ReadFailure(e) == ErrorText("Error reading PDF file")

\* FinancialDocumentTool._run(path), for what is at the path: whether a file
\* exists, the extension of the path, and what PyPDFLoader(path).load() does
\* with it (raises, or returns the pages).
FinancialDocumentTool_run(doc) ==
    IF ~doc.exists THEN ErrorText("Error: File not found at path")
    ELSE IF Lower(doc.ext) # "pdf" THEN ErrorText("Error: File must be a PDF")
    ELSE IF doc.load.raises THEN ReadFailure("PdfReadError")
    ELSE IF doc.load.docs = <<>>
    THEN ErrorText("Error: No content could be extracted from the PDF file.")
    ELSE IF FullReport(doc.load.docs, 1) = <<>>
    THEN ErrorText("Error: No readable content found in the PDF file.")
    ELSE [kind |-> "report", text |-> FullReport(doc.load.docs, 1)]

\* ------------------------------------------------------- risk assessment
\* str.lower(), character by character.
UpperCase == <<"B", "D", "E", "L", "O", "S", "T">>

LowerCase == <<"b", "d", "e", "l", "o", "s", "t">>

LowerText(s) ==
    [i \in 1..Len(s) |->
        IF \E k \in 1..Len(UpperCase) : UpperCase[k] = s[i]
        THEN LowerCase[CHOOSE k \in 1..Len(UpperCase) : UpperCase[k] = s[i]]
        ELSE s[i]]

\* str.count(sub): the occurrences of sub, left to right, not overlapping:
\* the first occurrence at or after a position is counted and the search
\* goes on behind it.
RECURSIVE CountFrom(_, _, _)
CountFrom(found, start, length) ==
    LET ahead == {i \in found : i >= start}
        first == CHOOSE i \in ahead : \A j \in ahead : i <= j
    IN  IF ahead = {} THEN 0 ELSE 1 + CountFrom(found, first + length, length)

CountOccurrences(s, sub) ==
    CountFrom({i \in 1..(Len(s) - Len(sub) + 1) :
                  \A k \in 1..Len(sub) : s[i + k - 1] = sub[k]},
              1, Len(sub))

risk_keywords ==
    << <<"d", "e", "b", "t">>,
       <<"l", "i", "a", "b", "i", "l", "i", "t", "y">>,
       <<"r", "i", "s", "k">>,
       <<"u", "n", "c", "e", "r", "t", "a", "i", "n", "t", "y">>,
       <<"v", "o", "l", "a", "t", "i", "l", "i", "t", "y">>,
       <<"l", "o", "s", "s">>,
       <<"d", "e", "c", "l", "i", "n", "e">>,
       <<"d", "e", "c", "r", "e", "a", "s", "e">>,
       <<"c", "h", "a", "l", "l", "e", "n", "g", "e">>,
       <<"t", "h", "r", "e", "a", "t">>,
       <<"e", "x", "p", "o", "s", "u", "r", "e">>,
       <<"c", "o", "n", "t", "i", "n", "g", "e", "n", "c", "y">>,
       <<"d", "e", "f", "a", "u", "l", "t">>,
       <<"b", "a", "n", "k", "r", "u", "p", "t", "c", "y">> >>

\* sum(content_lower.count(kw) for kw in risk_keywords)
RECURSIVE SumCounts(_, _)
SumCounts(content_lower, i) ==
    IF i > Len(risk_keywords) THEN 0
    ELSE CountOccurrences(content_lower, risk_keywords[i])
            + SumCounts(content_lower, i + 1)

\* A categorisation whose steps start one mention early.
RiskLevel_Inclusive(risk_mentions) ==
    IF risk_mentions >= 20 THEN "High"
    ELSE IF risk_mentions >= 10 THEN "Medium"
    ELSE IF risk_mentions >= 5 THEN "Low-Medium"
    ELSE "Low"

\* if risk_mentions > 20 ... elif > 10 ... elif > 5 ... else
RiskLevel(risk_mentions) ==
    IF risk_mentions > 20 THEN "High"
    ELSE IF risk_mentions > 10 THEN "Medium"
    ELSE IF risk_mentions > 5 THEN "Low-Medium"
    ELSE "Low"

\* RiskTool._run(financial_document_data): an error text for an empty or
\* blank text, else the summary with the level, the keywords found, the
\* number of mentions and the length of the text.
RiskTool_run(financial_document_data) ==
    IF financial_document_data = <<>> \/ StripText(financial_document_data) = <<>>
    THEN ErrorText("Error: No financial document data provided for risk assessment.")
    ELSE LET content_lower == LowerText(financial_document_data)
             risk_mentions == SumCounts(content_lower, 1)
         IN  [kind |-> "summary",
              overall_risk_level |-> RiskLevel(risk_mentions),
              risk_indicators_found |->
                  SelectSeq(risk_keywords,
                            LAMBDA kw : CountOccurrences(content_lower, kw) > 0),
              total_risk_mentions |-> risk_mentions,
              document_length |-> Len(financial_document_data),
              assessment_status |-> "Completed"]

\* ---------------------------------------------------------------- uploads
\* UploadFile.read(): the bytes from the current position to the end; the
\* position is left at the end (nothing in the handlers seeks back).
FileRead(upload) == upload.size - upload.pos

AfterRead(upload) == [upload EXCEPT !.pos = upload.size]

\* "data/sample.pdf": the one file of the data directory no upload id names.
SAMPLE_PATH == <<"data", 0>>

\* f"data/financial_document_{file_id}.pdf"
FilePath(file_id) == <<"data", file_id>>

\* os.path.basename
Basename(path) == path[2]

\* --------------------------------------------------------------- pipeline
\* A task list in which the tasks were declared with async_execution=True.
async_execution_True(task) == TRUE

\* task.py: the four Task objects; every one has async_execution=False.
async_execution(task) == FALSE

\* main.py run_crew: tasks=[verification, analyze_financial_document,
\* investment_analysis, risk_assessment], process=Process.sequential
MAIN_TASKS ==
    <<"verification", "analyze_financial_document", "investment_analysis",
      "risk_assessment">>

\* bonus_main.py run_crew: tasks=[verification, analyze_financial_document]
BONUS_TASKS == <<"verification", "analyze_financial_document">>

\* What one stage can do: return a report, return a report that says the
\* document is unsuitable (the verification stage), or raise.
StageOutcomes(task) ==
    IF task = "verification" THEN {"text", "unsuitable", "raise"}
    ELSE {"text", "raise"}

NoOutput == [kind |-> "none"]

TaskOutput(task, query, file_path, kind) ==
    [stage |-> task, query |-> query, file |-> file_path, kind |-> kind]

\* Crew(...).kickoff(inputs): a fresh run over the crew's task list.
Kickoff(tasks, query, file_path) ==
    [tasks |-> tasks, query |-> query, file |-> file_path, idx |-> 1,
     events |-> <<>>, pending |-> <<>>, verdict |-> "none",
     state |-> "running", result |-> NoOutput]

NoRun == [state |-> "none"]

EndEvents(stages) == [i \in 1..Len(stages) |-> <<"end", stages[i]>>]

\* Process.sequential: the task after the one at idx is the next of the list.
NextStage(run) == run.idx + 1

\* One stage of a run.  A task with async_execution is started and left
\* pending; any other task first waits for the pending ones, then runs to its
\* end.  A stage that raises ends the kickoff with that exception; otherwise
\* the kickoff returns the last task's output once the list is exhausted.
StageStep(run, outcome) ==
    LET task == run.tasks[run.idx]
        started ==
            IF async_execution(task)
            THEN [run EXCEPT !.events = Append(@, <<"start", task>>),
                             !.pending = Append(@, task)]
            ELSE [run EXCEPT !.events = @ \o EndEvents(run.pending)
                                          \o <<<<"start", task>>, <<"end", task>>>>,
                             !.pending = <<>>]
        judged ==
            IF task = "verification"
            THEN [started EXCEPT !.verdict = outcome]
            ELSE started
    IN  IF outcome = "raise"
        THEN [judged EXCEPT !.state = "raised"]
        ELSE LET out == [judged EXCEPT
                            !.idx = NextStage(run),
                            !.result = TaskOutput(task, run.query, run.file, outcome)]
             IN  IF out.idx > Len(out.tasks)
                 THEN [out EXCEPT !.state = "returned",
                                  !.events = @ \o EndEvents(out.pending),
                                  !.pending = <<>>]
                 ELSE out

\* The stages a run has invoked so far, in the order of their start.
RECURSIVE Started(_)
Started(events) ==
    IF events = <<>> THEN <<>>
    ELSE IF Head(events)[1] = "start"
         THEN <<Head(events)[2]>> \o Started(Tail(events))
         ELSE Started(Tail(events))

\* ------------------------------------------------------------------ queue
\* bonus_queue_system.py: Queue('high_priority'), Queue('analysis'),
\* Queue('low_priority')
Lanes == {"high_priority", "analysis", "low_priority"}

\* queue_financial_analysis: 'high' -> high_priority_queue,
\* 'low' -> low_priority_queue, anything else -> normal_queue
QueueForPriority(priority) ==
    IF priority = "high" THEN "high_priority"
    ELSE IF priority = "low" THEN "low_priority"
    ELSE "analysis"

\* job_id=f"analysis_{datetime.now().strftime('%Y%m%d_%H%M%S')}_{basename}"
JobId(ts, file_path) == <<"analysis", ts, Basename(file_path)>>

\* An enqueue that pushes at the head of the lane (at_front=True).
Enqueued_AtHead(lane, job_id) == <<job_id>> \o lane

\* Queue.enqueue: the job is pushed at the tail of its lane (RPUSH).
Enqueued(lane, job_id) == Append(lane, job_id)

\* A default list that names the normal queue before the high-priority one.
DEFAULT_QUEUES_NormalFirst == <<"analysis", "high_priority", "low_priority">>

\* start_worker(None): queues = [high_priority_queue, normal_queue,
\* low_priority_queue]
DEFAULT_QUEUES == <<"high_priority", "analysis", "low_priority">>

\* start_worker's queue_map
QueueMap(name) ==
    CASE name = "high_priority" -> "high_priority"
      [] name = "normal" -> "analysis"
      [] name = "analysis" -> "analysis"
      [] name = "low_priority" -> "low_priority"
      [] OTHER -> None

RECURSIVE MapQueues(_)
MapQueues(names) ==
    IF names = <<>> THEN <<>>
    ELSE IF QueueMap(Head(names)) # None
         THEN <<QueueMap(Head(names))>> \o MapQueues(Tail(names))
         ELSE MapQueues(Tail(names))

\* start_worker's argument: None, or the names given on the command line.
NoNames == [given |-> FALSE, names |-> <<>>]

Names(names) == [given |-> TRUE, names |-> names]

\* The queues a worker started with queue_names serves, in serving order.
WorkerQueues(queue_names) ==
    IF ~queue_names.given THEN DEFAULT_QUEUES ELSE MapQueues(queue_names.names)

\* Worker(queues).work(): the first of the worker's queues, in the order
\* given, that holds a job; None when all are empty.
RECURSIVE FirstNonEmpty(_, _)
FirstNonEmpty(queues, ls) ==
    IF queues = <<>> THEN None
    ELSE IF ls[Head(queues)] # <<>> THEN Head(queues)
         ELSE FirstNonEmpty(Tail(queues), ls)

\* A dequeue that hands out the job at the tail while the head is dropped.
Dequeued_Last(lane) == lane[Len(lane)]

\* The job a dequeue from a lane hands out (LPOP: the head) ...
Dequeued(lane) == Head(lane)

\* A dequeue that peeks: the job is handed out and stays on the lane.
AfterDequeue_Peek(lane) == lane

\* ... and what it leaves on the lane: the pop is one atomic step of the
\* backend, the job is gone from the lane when the worker holds it.
AfterDequeue(lane) == Tail(lane)

\* --------------------------------------------------------------- database
\* The parameters of DatabaseOperations.create_analysis_result.
CREATE_PARAMS ==
    {"db", "filename", "query", "analysis_result", "original_filename",
     "file_size", "analysis_type", "processing_time", "user_ip", "job_id"}

\* A call that leaves the status keyword out, as the signature demands.
SYNC_CREATE_KWARGS_NoStatus ==
    {"db", "filename", "original_filename", "file_size", "query",
     "analysis_result", "user_ip"}

\* The keyword arguments analyze_document and analyze_sample_document pass.
SYNC_CREATE_KWARGS ==
    {"db", "filename", "original_filename", "file_size", "query",
     "analysis_result", "status", "user_ip"}

\* The keyword arguments analyze_document_async passes.
ASYNC_CREATE_KWARGS == SYNC_CREATE_KWARGS \cup {"job_id"}

\* A create_analysis_result that takes whatever keyword it is given.
CreateRaises_Never(kwargs) == FALSE

\* Python raises TypeError on a keyword argument the function does not have.
CreateRaises(kwargs) == ~(kwargs \subseteq CREATE_PARAMS)

\* AnalysisResult.status: Column(String, default="completed");
\* create_analysis_result never sets it.
NoJob == <<>>

NewRecord(analysis_result, job_id, created_at) ==
    [status |-> "completed", analysis_result |-> analysis_result,
     error_message |-> None, job_id |-> job_id, created_at |-> created_at]

\* update_analysis_status on a record that exists: the status is assigned as
\* given; error_message and analysis_result only when truthy.
UpdatedRecord(rec, status, error_message, analysis_result) ==
    [rec EXCEPT !.status = status,
                !.error_message = IF error_message # None THEN error_message ELSE @,
                !.analysis_result =
                    IF analysis_result # NoOutput THEN analysis_result ELSE @]

\* -------------------------------------------------------------- responses
HttpError(code, detail) == [status |-> "error", code |-> code, detail |-> detail]

NoResp == [status |-> "none", code |-> 0]

\* f"/job-status/{job_id}"
StatusUrl(job_id) == <<"/job-status/", job_id>>

\* ------------------------------------------------------------------ state
VARIABLES
    QUEUE_AVAILABLE,     \* bonus_main: the import of redis_queue succeeded
    DATABASE_AVAILABLE,  \* bonus_main: the import of database succeeded
    redis_conn,          \* the web process's module-level connection, or None
    worker_conn,         \* worker name -> the module-level connection of that
                         \* worker's process: not loaded yet, a connection, None
    redisUp,             \* whether the Redis server can be reached right now
    now,                 \* datetime.now(), in seconds
    nextUuid,            \* the next value uuid.uuid4() hands out
    files,               \* the paths that exist in the data directory
    lanes,               \* lane name -> the job ids waiting on it, head first
    jobs,                \* job id -> the job's hash in Redis
    records,             \* record id -> the analysis_results row
    fpc,                 \* the front door: idle, crew (run_crew inline), done
    req,                 \* the request the front door is serving or served last
    fdrun,               \* the run_crew call of that request, if any
    fdq,                 \* what queue_financial_analysis returned to it, if called
    fdDb,                \* db_result of that request: a record id, 0 for None
    resp,                \* the response to that request
    worker,              \* worker name -> its arguments, queues, job and run
    lastUpdate,          \* the last update_analysis_status call and its effect
    cleanup,             \* the last cleanup_old_jobs pass: its cutoff time
    tool,                \* the last call of a tool: the document at the path
                         \* or the text it was given, and what _run returned
    statusResp,          \* the last /job-status call: the id asked, the status
                         \* the job had at that moment, and the answer
    statsResp,           \* the last /queue-stats call and its answer
    output,              \* the output/ folder: dir maps a report's path to its
                         \* content, log lists every save_output_report call
    enqLog,              \* every job placed on a lane: <<job id, lane>>
    deqLog               \* every job handed to a worker: <<job id, lane, worker>>

vars ==
    <<QUEUE_AVAILABLE, DATABASE_AVAILABLE, redis_conn, worker_conn, redisUp, now,
      nextUuid, files, lanes, jobs, records, fpc, req, fdrun, fdq, fdDb, resp,
      worker, lastUpdate, cleanup, tool, statusResp, statsResp, output, enqLog,
      deqLog>>

flagVars == <<QUEUE_AVAILABLE, DATABASE_AVAILABLE, redis_conn, worker_conn>>

\* The test done again at every call: no connection means Redis is down now.
NoConnection_Reprobed(conn) == ~redisUp

\* if not redis_conn: the test every function of the queue module starts with.
NoConnection(conn) == conn = None

queueVars == <<lanes, jobs, enqLog, lastUpdate>>

fdVars == <<fpc, req, fdrun, fdq, fdDb, resp>>

NotCalled == <<"not_called">>

NoToolCall == [called |-> FALSE]

NoCleanup == [ran |-> FALSE, cutoff |-> 0]

NoUpdate == [id |-> 0, before |-> "none", status |-> "none", applied |-> FALSE]

NoRequest ==
    [endpoint |-> "none",
     upload |-> [given |-> FALSE, ext |-> "", size |-> 0, pos |-> 0],
     query |-> <<>>, priority |-> "normal"]

NoStatsResp == [asked |-> FALSE, body |-> [none |-> TRUE]]

\* A process that has not imported the queue module yet.
NotLoaded == "not_loaded"

NoStatusResp == [asked |-> NoJob, job_status |-> "none", body |-> [none |-> TRUE]]

StoppedWorker ==
    [state |-> "stopped", queue_names |-> NoNames, queues |-> <<>>, job |-> NoJob,
     run |-> NoRun]

\* The uploads, queries and priorities a client may send.
Upload(ext, size) == [given |-> TRUE, ext |-> ext, size |-> size, pos |-> 0]

\* A PDF of 1 KB: accepted by every endpoint.
ValidUploads == {Upload("pdf", 1024)}

\* ... and the uploads the endpoints refuse: not a PDF, over 10 MB, 0 bytes.
Uploads ==
    ValidUploads
        \cup {Upload("txt", 1024), Upload("pdf", MaxUploadBytes + 1), Upload("pdf", 0)}

NoUpload == [given |-> FALSE, ext |-> "", size |-> 0, pos |-> 0]

Queries == {<<" ">>, <<" ", "q">>}

Priorities == {"high", "normal", "low", "urgent"}

\* The priorities the documentation of /analyze-async names.
NamedPriorities == {"high", "normal", "low"}

QueueNames == {NoNames, Names(<<"low_priority", "high_priority">>), Names(<<"bogus">>)}

Init ==
    /\ QUEUE_AVAILABLE \in BOOLEAN
    \* the deployment under study ships the database module: its import in
    \* bonus_main succeeds
    /\ DATABASE_AVAILABLE = TRUE
    /\ redisUp \in BOOLEAN
    \* redis_conn.ping() at module load: the connection, or None on failure
    /\ redis_conn = IF redisUp THEN "conn" ELSE None
    /\ worker_conn = [w \in Workers |-> NotLoaded]
    /\ now = 0
    /\ nextUuid = 1
    /\ files = {SAMPLE_PATH}
    /\ lanes = [l \in Lanes |-> <<>>]
    /\ jobs = [j \in {} |-> NoRun]
    /\ records = [r \in {} |-> NoRun]
    /\ fpc = "idle"
    /\ req = NoRequest
    /\ fdrun = NoRun
    /\ fdq = NotCalled
    /\ fdDb = 0
    /\ resp = NoResp
    /\ worker = [w \in Workers |-> StoppedWorker]
    /\ lastUpdate = NoUpdate
    /\ statusResp = NoStatusResp
    /\ statsResp = NoStatsResp
    /\ output = [dir |-> <<>>, log |-> <<>>]
    /\ cleanup = NoCleanup
    /\ tool = NoToolCall
    /\ enqLog = <<>>
    /\ deqLog = <<>>

\* ------------------------------------------------- front door: bonus_main
Processing == [kind |-> "Processing..."]

QueuedForProcessing == [kind |-> "Queued for processing..."]

\* try: db_result = DatabaseOperations.create_analysis_result(**kwargs)
\* except Exception: logger.warning(...)            (db_result stays None)
\* The record id is the next uuid4 (AnalysisResult.id's default).
DbCreate(recs, uuid, kwargs, analysis_result, job_id) ==
    IF DATABASE_AVAILABLE /\ ~CreateRaises(kwargs)
    THEN [records |-> [r \in DOMAIN recs \cup {uuid} |->
                          IF r = uuid THEN NewRecord(analysis_result, job_id, now)
                          ELSE recs[r]],
          db |-> uuid, uuid |-> uuid + 1]
    ELSE [records |-> recs, db |-> 0, uuid |-> uuid]

\* if DATABASE_AVAILABLE and db and db_result: update_analysis_status(...)
DbUpdate(recs, db, status, error_message, analysis_result) ==
    IF DATABASE_AVAILABLE /\ db # 0 /\ db \in DOMAIN recs
    THEN [recs EXCEPT ![db] = UpdatedRecord(@, status, error_message, analysis_result)]
    ELSE recs

\* analyze_document, lines 203-213: whatever is raised while the upload is
\* saved, the HTTPException for an empty file included, is caught by
\* `except Exception` and raised again as a 500.
SaveUploadError(raised) == HttpError(500, "Error saving uploaded file")

\* Handlers that let an exception of the store operation go up.
StoreFailure_Propagates == "raised"

\* except Exception as e: logger.warning("Could not create database record")
\* (and the same around the updates): a store operation that raises is
\* logged, and the handler goes on.
StoreFailure == "logged"

\* A finally clause that leaves the file where it is.
Removed_Never(fs, path) == fs

\* finally: if os.path.exists(file_path): os.remove(file_path)
Removed(fs, path) == fs \ {path}

\* analyze_document from its first line to the call of run_crew, or to its
\* end when it raises before that (the finally clause included).
AnalyzeDocumentEntry(up, query, fs, recs, uuid) ==
    LET path == FilePath(uuid)
        dbc == DbCreate(recs, uuid + 1, SYNC_CREATE_KWARGS, Processing, NoJob)
        Raise(r, fs2, up2) ==
            [kind |-> "done", resp |-> r, run |-> NoRun, files |-> fs2,
             upload |-> up2, records |-> dbc.records, db |-> dbc.db,
             uuid |-> dbc.uuid]
    IN  IF DATABASE_AVAILABLE /\ CreateRaises(SYNC_CREATE_KWARGS)
              /\ StoreFailure = "raised"
        THEN Raise(HttpError(500, "Internal Server Error"), fs, up)
        ELSE IF ~EndsWithPdf(up)
        THEN Raise(HttpError(400, "Only PDF files are supported"), fs, up)
        ELSE IF up.size # 0 /\ up.size > MaxUploadBytes
        THEN Raise(HttpError(400, "File size must be less than 10MB"), fs, up)
        ELSE IF FileRead(up) = 0
        \* open(file_path, "wb") has created the file; finally removes it
        THEN Raise(SaveUploadError(HttpError(400, "Empty file uploaded")),
                   Removed(fs \cup {path}, path), AfterRead(up))
        ELSE [kind |-> "crew", resp |-> NoResp,
              run |-> Kickoff(BONUS_TASKS, CleanQuery(query), path),
              files |-> fs \cup {path}, upload |-> AfterRead(up),
              records |-> dbc.records, db |-> dbc.db, uuid |-> dbc.uuid]

\* A handler whose except clause swallows the exception of run_crew.
CrewSucceeded_Always(run) == TRUE

\* try: response = run_crew(...) / except Exception: the statements after the
\* call run only when run_crew returned; an exception goes to the except
\* clause, which raises HTTPException(500).
CrewSucceeded(run) == run.state = "returned"

\* analyze_document from the return (or the exception) of run_crew to its end.
AnalyzeDocumentExit(run, up, fs, recs, db) ==
    IF CrewSucceeded(run)
    THEN [resp |-> IF DATABASE_AVAILABLE /\ db # 0
                   THEN [status |-> "success", code |-> 200, query |-> run.query,
                         analysis |-> run.result, file_size |-> up.size,
                         analysis_id |-> Basename(run.file), database_id |-> db]
                   ELSE [status |-> "success", code |-> 200, query |-> run.query,
                         analysis |-> run.result, file_size |-> up.size,
                         analysis_id |-> Basename(run.file)],
          records |-> DbUpdate(recs, db, "completed", None, run.result),
          files |-> Removed(fs, run.file)]
    ELSE [resp |-> HttpError(500, "Error during document analysis"),
          records |-> DbUpdate(recs, db, "failed", "Error in analysis crew", NoOutput),
          files |-> Removed(fs, run.file)]

\* analyze_sample_document up to run_crew: 404 without data/sample.pdf, else
\* the query cleaned, the record attempted and run_crew on the sample.
SampleEntry(query, fs, recs, uuid) ==
    LET dbc == DbCreate(recs, uuid, SYNC_CREATE_KWARGS, Processing, NoJob)
    IN  IF SAMPLE_PATH \notin fs
        THEN [kind |-> "done", resp |-> HttpError(404, "Sample document not found"),
              run |-> NoRun, records |-> recs, db |-> 0, uuid |-> uuid]
        ELSE IF DATABASE_AVAILABLE /\ CreateRaises(SYNC_CREATE_KWARGS)
                /\ StoreFailure = "raised"
        THEN [kind |-> "done", resp |-> HttpError(500, "Error processing sample document"),
              run |-> NoRun, records |-> recs, db |-> 0, uuid |-> uuid]
        ELSE [kind |-> "crew", resp |-> NoResp,
              run |-> Kickoff(BONUS_TASKS, CleanQuery(query), SAMPLE_PATH),
              records |-> dbc.records, db |-> dbc.db, uuid |-> dbc.uuid]

\* analyze_sample_document from the return (or the exception) of run_crew on.
SampleExit(run, recs, db) ==
    IF CrewSucceeded(run)
    THEN [resp |-> IF DATABASE_AVAILABLE /\ db # 0
                   THEN [status |-> "success", code |-> 200, query |-> run.query,
                         analysis |-> run.result, source |-> "sample_document",
                         database_id |-> db]
                   ELSE [status |-> "success", code |-> 200, query |-> run.query,
                         analysis |-> run.result, source |-> "sample_document"],
          records |-> DbUpdate(recs, db, "completed", None, run.result)]
    \* run_crew raises HTTPException(500): `except HTTPException: raise`
    \* passes it on as it is, without touching the record
    ELSE [resp |-> HttpError(500, "Error in analysis crew"),
          records |-> recs]

\* ------------------------------------------------------ front door: main
\* analyze_financial_doc up to run_crew: an upload is saved as it is.
MainAnalyze(up, query, fs, uuid) ==
    LET path == IF up.given THEN FilePath(uuid) ELSE SAMPLE_PATH
    IN  [kind |-> "crew", resp |-> NoResp,
         run |-> Kickoff(MAIN_TASKS, MainCleanQuery(query), path),
         files |-> fs \cup {path},
         upload |-> IF up.given THEN AfterRead(up) ELSE up,
         uuid |-> IF up.given THEN uuid + 1 ELSE uuid]

\* analyze_financial_doc after run_crew: the report is saved and named in
\* the response; any exception becomes a 500; an upload's file is removed.
MainAnalyzeExit(run, up, fs, ts) ==
    [resp |-> IF CrewSucceeded(run)
              THEN [status |-> "success", code |-> 200, query |-> run.query,
                    file_used |-> Basename(run.file),
                    output_report |-> <<"output", ts>>]
              ELSE HttpError(500, "Error"),
     files |-> IF up.given THEN Removed(fs, run.file) ELSE fs]

\* ----------------------------------------------- queue_financial_analysis
\* job.ended_at of a job that has not ended (None).
NotEnded == -1

NewJob(file_path, query, lane) ==
    [status |-> "queued", query |-> query, file |-> file_path, origin |-> lane,
     result |-> NoOutput, exc_info |-> None, ended_at |-> NotEnded]

\* What a caller gets in place of a job id when the call raised.
Raised == <<"raised">>

\* A queue_financial_analysis without its except clause.
EnqueueFailure_Propagates == Raised

\* except Exception as e: logger.error("Failed to queue analysis job");
\* return None
EnqueueFailure == NoJob

\* queue_financial_analysis(file_path, query, priority): no connection, or
\* an exception inside enqueue, gives None; otherwise the job is on its lane
\* and its id is returned.
queue_financial_analysis(file_path, query, priority) ==
    LET lane == QueueForPriority(priority)
        job_id == JobId(now, file_path)
    IN  IF NoConnection(redis_conn)
        THEN [job_id |-> NoJob, lanes |-> lanes, jobs |-> jobs, enqLog |-> enqLog]
        ELSE IF ~redisUp
        THEN [job_id |-> EnqueueFailure, lanes |-> lanes, jobs |-> jobs,
              enqLog |-> enqLog]
        ELSE [job_id |-> job_id,
              lanes |-> [lanes EXCEPT ![lane] = Enqueued(@, job_id)],
              jobs |-> [j \in DOMAIN jobs \cup {job_id} |->
                           IF j = job_id THEN NewJob(file_path, query, lane)
                           ELSE jobs[j]],
              enqLog |-> Append(enqLog, <<job_id, lane>>)]

\* An entry that goes on to the queue path whatever QUEUE_AVAILABLE says.
AsyncEntry_AlwaysQueue == "queue"

\* analyze_document_async, line 317: if not QUEUE_AVAILABLE the request is
\* handed to analyze_document before anything else is done.
AsyncEntry == IF ~QUEUE_AVAILABLE THEN "analyze_document" ELSE "queue"

\* A handler that falls through to analyze_document after a successful enqueue.
AfterEnqueue_AlwaysFallback(job_id) == "fallback"

\* analyze_document_async, line 352: a job id means the job handle is
\* returned; None means the fallback to analyze_document.
AfterEnqueue(job_id) == IF job_id # NoJob THEN "job_handle" ELSE "fallback"

JobHandle(job_id, query, priority) ==
    [status |-> "queued", code |-> 200, job_id |-> job_id, query |-> query,
     priority |-> priority, check_status_url |-> StatusUrl(job_id)]

\* analyze_document_async once the queue feature is there: validation, the
\* upload saved, the query cleaned, the job queued and the job handle
\* returned, or the fallback to analyze_document with the same UploadFile.
AsyncQueued(up, query, priority) ==
    LET path == FilePath(nextUuid)
        q == CleanQuery(query)
        saved == files \cup {path}
        enq == queue_financial_analysis(path, q, priority)
        dbc == DbCreate(records, nextUuid + 1, ASYNC_CREATE_KWARGS,
                        QueuedForProcessing, enq.job_id)
        fallback == AnalyzeDocumentEntry(AfterRead(up), q, saved, records, nextUuid + 1)
        Raise(r, fs) ==
            [kind |-> "done", resp |-> r, run |-> NoRun, files |-> fs,
             records |-> records, db |-> 0, uuid |-> nextUuid + 1,
             fdq |-> NotCalled, lanes |-> lanes, jobs |-> jobs, enqLog |-> enqLog]
    IN  IF ~EndsWithPdf(up)
        THEN Raise(HttpError(400, "Only PDF files are supported"), files)
        ELSE IF up.size # 0 /\ up.size > MaxUploadBytes
        THEN Raise(HttpError(400, "File size must be less than 10MB"), files)
        ELSE IF FileRead(up) = 0
        \* raised inside `with open(...)`: the file exists; except
        \* HTTPException re-raises without removing it
        THEN Raise(HttpError(400, "Empty file uploaded"), saved)
        ELSE IF ~QUEUE_AVAILABLE
        \* the name queue_financial_analysis was never imported: NameError,
        \* handled by `except Exception`, which removes the file
        THEN Raise(HttpError(500, "Error processing request"), files)
        ELSE IF enq.job_id = Raised
        THEN Raise(HttpError(500, "Error processing request"), files)
        ELSE IF AfterEnqueue(enq.job_id) = "job_handle"
        THEN [kind |-> "done", resp |-> JobHandle(enq.job_id, q, priority),
              run |-> NoRun, files |-> saved, records |-> dbc.records,
              db |-> dbc.db, uuid |-> dbc.uuid, fdq |-> enq.job_id,
              lanes |-> enq.lanes, jobs |-> enq.jobs, enqLog |-> enq.enqLog]
        ELSE [kind |-> fallback.kind, resp |-> fallback.resp, run |-> fallback.run,
              files |-> fallback.files, records |-> fallback.records,
              db |-> fallback.db, uuid |-> fallback.uuid, fdq |-> enq.job_id,
              lanes |-> enq.lanes, jobs |-> enq.jobs, enqLog |-> enq.enqLog]

\* ---------------------------------------------------------------- actions
\* POST /analyze of bonus_main.py, up to run_crew.
analyze_document(up, query) ==
    /\ fpc # "crew"
    /\ nextUuid <= MaxUuid
    /\ LET o == AnalyzeDocumentEntry(up, query, files, records, nextUuid)
       IN  /\ fpc' = o.kind
           /\ resp' = o.resp
           /\ fdrun' = o.run
           /\ files' = o.files
           /\ records' = o.records
           /\ fdDb' = o.db
           /\ nextUuid' = o.uuid
    /\ req' = [endpoint |-> "analyze", upload |-> up, query |-> query,
               priority |-> "normal"]
    /\ fdq' = NotCalled
    /\ UNCHANGED <<flagVars, output, statsResp, tool, cleanup, statusResp, redisUp, now, queueVars, worker, deqLog>>

\* POST /analyze-async of bonus_main.py, up to its response or to run_crew.
analyze_document_async(up, query, priority) ==
    /\ fpc # "crew"
    /\ nextUuid <= MaxUuid
    /\ LET sync == AnalyzeDocumentEntry(up, query, files, records, nextUuid)
           o == IF AsyncEntry = "analyze_document"
                THEN [kind |-> sync.kind, resp |-> sync.resp, run |-> sync.run,
                      files |-> sync.files, records |-> sync.records,
                      db |-> sync.db, uuid |-> sync.uuid, fdq |-> NotCalled,
                      lanes |-> lanes, jobs |-> jobs, enqLog |-> enqLog]
                ELSE AsyncQueued(up, query, priority)
       IN  /\ fpc' = o.kind
           /\ resp' = o.resp
           /\ fdrun' = o.run
           /\ files' = o.files
           /\ records' = o.records
           /\ fdDb' = o.db
           /\ nextUuid' = o.uuid
           /\ fdq' = o.fdq
           /\ lanes' = o.lanes
           /\ jobs' = o.jobs
           /\ enqLog' = o.enqLog
           /\ UNCHANGED lastUpdate
    /\ req' = [endpoint |-> "analyze_async", upload |-> up, query |-> query,
               priority |-> priority]
    /\ UNCHANGED <<flagVars, output, statsResp, tool, cleanup, statusResp, redisUp, now, worker, deqLog>>

\* POST /analyze of main.py, up to run_crew (asyncio.to_thread).
analyze_financial_doc(up, query) ==
    /\ fpc # "crew"
    /\ nextUuid <= MaxUuid
    /\ LET o == MainAnalyze(up, query, files, nextUuid)
       IN  /\ fpc' = o.kind
           /\ resp' = o.resp
           /\ fdrun' = o.run
           /\ files' = o.files
           /\ nextUuid' = o.uuid
    /\ req' = [endpoint |-> "main_analyze", upload |-> up, query |-> query,
               priority |-> "normal"]
    /\ fdq' = NotCalled
    /\ fdDb' = 0
    /\ UNCHANGED <<flagVars, output, statsResp, tool, cleanup, statusResp, redisUp, now, queueVars, records, worker, deqLog>>

\* POST /analyze-sample of bonus_main.py, up to run_crew.
analyze_sample_document(query) ==
    /\ fpc # "crew"
    /\ nextUuid <= MaxUuid
    /\ LET o == SampleEntry(query, files, records, nextUuid)
       IN  /\ fpc' = o.kind
           /\ resp' = o.resp
           /\ fdrun' = o.run
           /\ records' = o.records
           /\ fdDb' = o.db
           /\ nextUuid' = o.uuid
    /\ req' = [endpoint |-> "analyze_sample", upload |-> NoUpload, query |-> query,
               priority |-> "normal"]
    /\ fdq' = NotCalled
    /\ UNCHANGED <<flagVars, output, statsResp, tool, cleanup, statusResp, redisUp, now, files, queueVars, worker, deqLog>>

\* One stage of the front door's run_crew; after the last one (or the one
\* that raises) the handler runs to its end.
FrontDoorStage(outcome) ==
    /\ fpc = "crew"
    /\ fdrun.state = "running"
    /\ outcome \in StageOutcomes(fdrun.tasks[fdrun.idx])
    /\ LET run == StageStep(fdrun, outcome)
           bonus == AnalyzeDocumentExit(run, req.upload, files, records, fdDb)
           main == MainAnalyzeExit(run, req.upload, files, now)
           sample == SampleExit(run, records, fdDb)
       IN  /\ fdrun' = run
           /\ IF run.state = "running"
              THEN UNCHANGED <<fpc, resp, files, records>>
              ELSE /\ fpc' = "done"
                   /\ resp' = CASE req.endpoint = "main_analyze" -> main.resp
                                 [] req.endpoint = "analyze_sample" -> sample.resp
                                 [] OTHER -> bonus.resp
                   /\ files' = CASE req.endpoint = "main_analyze" -> main.files
                                  [] req.endpoint = "analyze_sample" -> files
                                  [] OTHER -> bonus.files
                   /\ records' = CASE req.endpoint = "main_analyze" -> records
                                    [] req.endpoint = "analyze_sample" -> sample.records
                                    [] OTHER -> bonus.records
    /\ UNCHANGED <<flagVars, output, statsResp, tool, cleanup, statusResp, redisUp, now, nextUuid, queueVars, req, fdq, fdDb,
                   worker, deqLog>>

\* python redis_queue.py worker [queue_names...]: the module is loaded (its
\* own redis_conn) and start_worker returns at once without a connection or
\* without a valid queue, else the worker starts to work.
start_worker(w, queue_names) ==
    /\ worker[w].state = "stopped"
    /\ worker' = [worker EXCEPT ![w] =
                     IF ~redisUp \/ WorkerQueues(queue_names) = <<>>
                     THEN [@ EXCEPT !.state = "exited"]
                     ELSE [state |-> "idle", queue_names |-> queue_names,
                           queues |-> WorkerQueues(queue_names),
                           job |-> NoJob, run |-> NoRun]]
    /\ UNCHANGED <<flagVars, output, statsResp, tool, cleanup, statusResp, redisUp, now, nextUuid, files, queueVars, records,
                   fdVars, deqLog>>

\* Worker.work(): the next job is popped from the first non-empty queue of
\* the worker, marked started, and run_crew (main.py) is called with its
\* arguments.
WorkerDequeue(w) ==
    /\ worker[w].state = "idle"
    /\ redisUp
    /\ FirstNonEmpty(worker[w].queues, lanes) # None
    /\ LET lane == FirstNonEmpty(worker[w].queues, lanes)
           job_id == Dequeued(lanes[lane])
       IN  /\ lanes' = [lanes EXCEPT ![lane] = AfterDequeue(@)]
           /\ jobs' = [jobs EXCEPT ![job_id].status = "started"]
           /\ worker' = [worker EXCEPT ![w] =
                            [@ EXCEPT !.state = "busy", !.job = job_id,
                                      !.run = Kickoff(MAIN_TASKS, jobs[job_id].query,
                                                      jobs[job_id].file)]]
           /\ deqLog' = Append(deqLog, <<job_id, lane, w>>)
    /\ UNCHANGED <<flagVars, output, statsResp, tool, cleanup, statusResp, redisUp, now, nextUuid, files, records, fdVars, enqLog,
                   lastUpdate>>

\* A worker that stops at the first job whose function raises.
AfterJob_StopOnRaise(run) == IF run.state = "raised" THEN "exited" ELSE "idle"

\* Worker.work(): an exception of the job's function is handled inside the
\* loop (the job is moved to failed); the worker waits for the next job
\* whatever way the job ended.
AfterJob(run) == "idle"

\* One stage of a worker's run_crew.  When the job's function has returned
\* or raised, the job is finished with its result, or failed with the
\* exception, and the worker waits for the next job.
WorkerStage(w, outcome) ==
    /\ worker[w].state = "busy"
    /\ worker[w].run.state = "running"
    /\ outcome \in StageOutcomes(worker[w].run.tasks[worker[w].run.idx])
    /\ LET run == StageStep(worker[w].run, outcome)
       IN  IF run.state = "running"
           THEN /\ worker' = [worker EXCEPT ![w].run = run]
                /\ UNCHANGED jobs
           ELSE /\ worker' = [worker EXCEPT ![w] =
                                 [@ EXCEPT !.state = AfterJob(run), !.job = NoJob,
                                           !.run = NoRun]]
                /\ jobs' = [jobs EXCEPT ![worker[w].job] =
                               IF run.state = "returned"
                               THEN [@ EXCEPT !.status = "finished", !.ended_at = now,
                                              !.result = run.result]
                               ELSE [@ EXCEPT !.status = "failed", !.ended_at = now,
                                              !.exc_info = "Traceback"]]
    /\ UNCHANGED <<flagVars, output, statsResp, tool, cleanup, statusResp, redisUp, now, nextUuid, files, lanes, enqLog, lastUpdate,
                   records, fdVars, deqLog>>

\* A stage of the front door's run_crew that never returns: the handler
\* calls run_crew (main.py: awaits it in a thread) with no timeout, so the
\* request waits on.
FrontDoorHang ==
    /\ fpc = "crew"
    /\ fdrun.state = "running"
    /\ fdrun' = [fdrun EXCEPT !.state = "hung"]
    /\ UNCHANGED <<flagVars, output, statsResp, tool, cleanup, statusResp, redisUp, now, nextUuid, files, queueVars, records,
                   fpc, resp, req, fdq, fdDb, worker, deqLog>>

\* A stage of a worker's run_crew that never returns.
WorkerHang(w) ==
    /\ worker[w].state = "busy"
    /\ worker[w].run.state = "running"
    /\ worker' = [worker EXCEPT ![w].run.state = "hung"]
    /\ UNCHANGED <<flagVars, output, statsResp, tool, cleanup, statusResp, redisUp, now, nextUuid, files, queueVars, records,
                   fdVars, deqLog>>

\* The job's timeout (enqueue(..., timeout=f'{timeout}s')): the worker ends
\* the job's function, the job is failed and the worker takes the next one.
WorkerTimeout(w) ==
    /\ worker[w].state = "busy"
    /\ worker[w].run.state = "hung"
    /\ worker' = [worker EXCEPT ![w] =
                     [@ EXCEPT !.state = "idle", !.job = NoJob, !.run = NoRun]]
    /\ jobs' = [jobs EXCEPT ![worker[w].job] =
                   [@ EXCEPT !.status = "failed", !.ended_at = now,
                             !.exc_info = "JobTimeoutException"]]
    /\ UNCHANGED <<flagVars, output, statsResp, tool, cleanup, statusResp, redisUp, now, nextUuid, files, lanes, enqLog,
                   lastUpdate, records, fdVars, deqLog>>

\* A call of queue_financial_analysis(file_path, query, priority) by any
\* caller of the module: the job, if one is made, is on its lane.
SubmitDirect(file_path, query, priority) ==
    /\ Len(enqLog) <= MaxUuid
    /\ LET enq == queue_financial_analysis(file_path, query, priority)
       IN  /\ lanes' = enq.lanes
           /\ jobs' = enq.jobs
           /\ enqLog' = enq.enqLog
    /\ UNCHANGED <<flagVars, output, statsResp, tool, cleanup, statusResp, redisUp, now, nextUuid, files, lastUpdate, records,
                   fdVars, worker, deqLog>>

\* queue.get_job_ids() of the three queues: the ids that are on the lanes.
get_job_ids(lns) == UNION {{lns[l][i] : i \in DOMAIN lns[l]} : l \in DOMAIN lns}

\* cleanup_old_jobs: of the ids the queues list, those whose job has an
\* ended_at before the cutoff and is finished or failed.
Deleted(lns, jbs, cutoff_time) ==
    {id \in get_job_ids(lns) \cap DOMAIN jbs :
        /\ jbs[id].ended_at # NotEnded
        /\ jbs[id].ended_at < cutoff_time
        /\ jbs[id].status \in {"finished", "failed"}}

\* job.delete(): the id leaves its lane.
Without(lane, ids) == SelectSeq(lane, LAMBDA id : id \notin ids)

\* cleanup_old_jobs(max_age_hours), the clock counting hours: nothing without
\* a connection (or when Redis cannot be reached: the exception is logged),
\* else every job picked by Deleted is deleted.
cleanup_old_jobs(max_age_hours) ==
    /\ ~NoConnection(redis_conn)
    /\ LET cutoff_time == now - max_age_hours
           gone == IF redisUp THEN Deleted(lanes, jobs, cutoff_time) ELSE {}
       IN  /\ jobs' = [id \in DOMAIN jobs \ gone |-> jobs[id]]
           /\ lanes' = [l \in DOMAIN lanes |-> Without(lanes[l], gone)]
           /\ cleanup' = [ran |-> redisUp, cutoff |-> cutoff_time]
    /\ UNCHANGED <<flagVars, output, statsResp, tool, statusResp, redisUp, now, nextUuid, files, enqLog,
                   lastUpdate, records, fdVars, worker, deqLog>>

\* An agent calls the document reader on a path.
ReadDocument(doc) ==
    /\ tool' = [called |-> TRUE, doc |-> doc, out |-> FinancialDocumentTool_run(doc)]
    /\ UNCHANGED <<flagVars, output, statsResp, cleanup, statusResp, redisUp, now, nextUuid, files, queueVars,
                   records, fdVars, worker, deqLog>>

\* An agent calls the risk tool on a text. The tool keeps nothing between
\* two calls, so each text is assessed once, from the initial state.
AssessRisk(financial_document_data) ==
    /\ ~tool.called
    /\ tool' = [called |-> TRUE, data |-> financial_document_data,
                out |-> RiskTool_run(financial_document_data)]
    /\ UNCHANGED <<flagVars, output, statsResp, cleanup, statusResp, redisUp, now, nextUuid, files, queueVars,
                   records, fdVars, worker, deqLog>>

\* The clock moves on by a second.
Tick ==
    /\ now < MaxTime
    /\ now' = now + 1
    /\ UNCHANGED <<flagVars, output, statsResp, tool, cleanup, statusResp, redisUp, nextUuid, files, queueVars, records, fdVars,
                   worker, deqLog>>

\* The Redis server becomes unreachable, or reachable again.
RedisToggle ==
    /\ redisUp' = ~redisUp
    /\ UNCHANGED <<flagVars, output, statsResp, tool, cleanup, statusResp, now, nextUuid, files, queueVars, records, fdVars,
                   worker, deqLog>>

\* --------------------------------------------------------- job status
\* A lookup that shows a result whatever the job's status is.
ResultShown_Always(status) == TRUE

\* get_job_status: if job.is_finished
ResultShown(status) == status = "finished"

\* get_job_status: elif job.is_failed
ErrorShown(status) == ~ResultShown(status) /\ status = "failed"

\* get_job_status(job_id): without a connection, or when Job.fetch raises
\* (Redis unreachable, no such job), a dictionary with an error text only;
\* otherwise the job's id, status and progress, with the result of a finished
\* job or else the exception of a failed one.
get_job_status(job_id) ==
    IF NoConnection(redis_conn)
    THEN [error |-> "Redis not available"]
    ELSE IF ~redisUp \/ job_id \notin DOMAIN jobs
    THEN [error |-> "Failed to get job status"]
    ELSE LET job == jobs[job_id]
             status_info == [job_id |-> job_id, status |-> job.status, progress |-> 0]
         IN  IF ResultShown(job.status)
             THEN [f \in DOMAIN status_info \cup {"result"} |->
                      IF f = "result" THEN job.result ELSE status_info[f]]
             ELSE IF ErrorShown(job.status)
             THEN [f \in DOMAIN status_info \cup {"error"} |->
                      IF f = "error" THEN job.exc_info ELSE status_info[f]]
             ELSE status_info

\* GET /job-status/{job_id}: the endpoint exists when the queue feature was
\* imported; it returns what get_job_status returns.
get_analysis_status(job_id) ==
    /\ QUEUE_AVAILABLE
    /\ statusResp' =
          [asked |-> job_id,
           job_status |-> IF job_id \in DOMAIN jobs THEN jobs[job_id].status ELSE "none",
           body |-> get_job_status(job_id)]
    /\ UNCHANGED <<flagVars, output, statsResp, tool, cleanup, redisUp, now, nextUuid, files, queueVars, records,
                   fdVars, worker, deqLog>>

\* The key get_queue_stats files each queue under.
StatsKeys == [high_priority |-> "high_priority", normal |-> "analysis",
              low_priority |-> "low_priority"]

\* get_queue_stats(): an error text without a connection or when the queue
\* cannot be read; else, for each queue, its length and its counts of failed
\* and of finished jobs.
get_queue_stats ==
    IF NoConnection(redis_conn)
    THEN [error |-> "Redis not available"]
    ELSE IF ~redisUp
    THEN [error |-> "Failed to get queue stats"]
    ELSE [queue_name \in DOMAIN StatsKeys |->
             LET Count(st) ==
                     Cardinality({j \in DOMAIN jobs :
                                     /\ jobs[j].origin = StatsKeys[queue_name]
                                     /\ jobs[j].status = st})
             IN  [length |-> Len(lanes[StatsKeys[queue_name]]),
                  failed_job_count |-> Count("failed"),
                  finished_job_count |-> Count("finished")]]

\* GET /queue-stats: the endpoint exists when the queue feature was imported;
\* it returns what get_queue_stats returns.
get_analysis_queue_stats ==
    /\ QUEUE_AVAILABLE
    /\ statsResp' = [asked |-> TRUE, body |-> get_queue_stats]
    /\ UNCHANGED <<flagVars, output, tool, cleanup, statusResp, redisUp, now, nextUuid, files,
                   queueVars, records, fdVars, worker, deqLog>>

\* python redis_queue.py worker, first half: the worker's process imports the
\* module, whose top level opens the connection and pings it once; a failure
\* leaves redis_conn = None in that process.
LoadQueueModule(w) ==
    /\ worker[w].state = "stopped"
    /\ worker_conn[w] = NotLoaded
    /\ worker_conn' = [worker_conn EXCEPT ![w] = IF redisUp THEN "conn" ELSE None]
    /\ UNCHANGED <<output, QUEUE_AVAILABLE, DATABASE_AVAILABLE, redis_conn, tool, cleanup,
                   statusResp, statsResp, redisUp, now, nextUuid, files, queueVars,
                   records, fdVars, worker, deqLog>>

\* python redis_queue.py worker, second half: start_worker(queue_names) in the
\* process that has loaded the module. Without a connection, without a valid
\* queue, or when Worker(...).work() raises, it returns; else it serves.
start_worker_loaded(w, queue_names) ==
    /\ worker[w].state = "stopped"
    /\ worker_conn[w] # NotLoaded
    /\ worker' = [worker EXCEPT ![w] =
                     IF \/ NoConnection(worker_conn[w])
                        \/ WorkerQueues(queue_names) = <<>>
                        \/ ~redisUp
                     THEN [@ EXCEPT !.state = "exited"]
                     ELSE [state |-> "idle", queue_names |-> queue_names,
                           queues |-> WorkerQueues(queue_names),
                           job |-> NoJob, run |-> NoRun]]
    /\ UNCHANGED <<flagVars, output, tool, cleanup, statusResp, statsResp, redisUp, now, nextUuid,
                   files, queueVars, records, fdVars, deqLog>>

\* ------------------------------------------------------ output reports
\* datetime.now().strftime("%Y%m%d_%H%M%S") and
\* os.path.join("output", f"financial_analysis_{timestamp}.txt")
OutputPath(t) == <<"output", t>>

\* What save_output_report writes: the query, the analysed file's path and
\* the analysis text.
Report(query, file_path, analysis_text) ==
    [query |-> query, file |-> file_path, text |-> analysis_text]

\* save_output_report(query, file_path, analysis_text): open(output_path, "w")
\* creates the file or truncates the one that is there, the report is
\* written, and the path is returned.
save_output_report(query, file_path, analysis_text) ==
    /\ Len(output.log) <= MaxUuid
    /\ LET output_path == OutputPath(now)
           report == Report(query, file_path, analysis_text)
       IN  output' =
              [dir |-> [p \in DOMAIN output.dir \cup {output_path} |->
                           IF p = output_path THEN report ELSE output.dir[p]],
               log |-> Append(output.log, [path |-> output_path, report |-> report])]
    /\ UNCHANGED <<flagVars, tool, cleanup, statusResp, statsResp, redisUp, now, nextUuid,
                   files, queueVars, records, fdVars, worker, deqLog>>

\* ------------------------------------------------------------ the store
\* DatabaseOperations.create_analysis_result called as its signature allows.
create_analysis_result(analysis_result, job_id) ==
    /\ nextUuid <= MaxUuid
    /\ records' = [r \in DOMAIN records \cup {nextUuid} |->
                      IF r = nextUuid THEN NewRecord(analysis_result, job_id, now)
                      ELSE records[r]]
    /\ nextUuid' = nextUuid + 1
    /\ UNCHANGED <<flagVars, output, statsResp, tool, cleanup, statusResp, redisUp, now, files, queueVars, fdVars, worker, deqLog>>

\* DatabaseOperations.update_analysis_status: False for an id that is not
\* there, else the record is updated and committed.
update_analysis_status(result_id, status, error_message, analysis_result) ==
    /\ records' = IF result_id \notin DOMAIN records THEN records
                  ELSE [records EXCEPT ![result_id] =
                           UpdatedRecord(@, status, error_message, analysis_result)]
    /\ lastUpdate' = IF result_id \notin DOMAIN records THEN NoUpdate
                     ELSE [id |-> result_id, before |-> records[result_id].status,
                           status |-> status, applied |-> TRUE]
    /\ UNCHANGED <<flagVars, output, statsResp, tool, cleanup, statusResp, redisUp, now, nextUuid, files, lanes, jobs, enqLog,
                   fdVars, worker, deqLog>>

\* DatabaseOperations.cleanup_old_records(db, days_old), the clock counting
\* days: every analysis result created before the cutoff is deleted.
cleanup_old_records(days_old) ==
    /\ LET cutoff_date == now - days_old
       IN  records' = [r \in {x \in DOMAIN records : ~(records[x].created_at < cutoff_date)}
                         |-> records[r]]
    /\ UNCHANGED <<flagVars, output, statsResp, tool, cleanup, statusResp, redisUp, now, nextUuid, files,
                   queueVars, fdVars, worker, deqLog>>

\* The status updates a caller makes: a result comes with completed, an
\* error message with failed.
StoreUpdates ==
    {<<"queued", None, NoOutput>>, <<"processing", None, NoOutput>>,
     <<"completed", None, TaskOutput("risk_assessment", <<"q">>, FilePath(1), "text")>>,
     <<"failed", "error", NoOutput>>}

\* ---------------------------------------------------------- specifications
StageOutcome == {"text", "unsuitable", "raise"}

\* The front door alone: every endpoint with every kind of upload.
NextFrontDoor ==
    \/ \E up \in Uploads, q \in Queries : analyze_document(up, q)
    \/ \E up \in Uploads, q \in Queries, p \in Priorities :
          analyze_document_async(up, q, p)
    \/ \E up \in Uploads \cup {NoUpload}, q \in Queries : analyze_financial_doc(up, q)
    \/ \E q \in Queries : analyze_sample_document(q)
    \/ \E o \in StageOutcome : FrontDoorStage(o)
    \/ RedisToggle

SpecFrontDoor == Init /\ [][NextFrontDoor]_vars

\* The queue and its workers, fed by valid asynchronous submissions.
NextQueue ==
    \/ \E up \in ValidUploads, q \in {<<" ", "q">>}, p \in NamedPriorities :
          analyze_document_async(up, q, p)
    \/ \E o \in StageOutcome : FrontDoorStage(o)
    \/ \E w \in Workers, n \in QueueNames : start_worker(w, n)
    \/ \E w \in Workers : WorkerDequeue(w)
    \/ \E w \in Workers, o \in StageOutcome : WorkerStage(w, o)

SpecQueue == Init /\ [][NextQueue]_vars

\* The queue with its workers' loops kept going: Worker.work() is a loop
\* that takes the next job whenever one of its queues holds one, and a job
\* that was started ends (run_crew returns or raises, or the job's timeout of
\* 600s ends it as failed).
WorkerFairness ==
    \A w \in Workers :
        /\ WF_vars(WorkerDequeue(w))
        /\ WF_vars(\E o \in StageOutcome : WorkerStage(w, o))

\* The queue feature is imported and Redis is up.
InitQueueUp == Init /\ QUEUE_AVAILABLE /\ redisUp

\* Submissions that are all enqueued, on the highest and on the lowest lane,
\* and the workers.
NextQueueUp ==
    \/ \E up \in ValidUploads, p \in {"high", "low"} :
          analyze_document_async(up, <<" ", "q">>, p)
    \/ \E w \in Workers, n \in QueueNames : start_worker(w, n)
    \/ \E w \in Workers : WorkerDequeue(w)
    \/ \E w \in Workers, o \in StageOutcome : WorkerStage(w, o)

SpecQueueFair == InitQueueUp /\ [][NextQueueUp]_vars /\ WorkerFairness

\* Stages that may never return, at the front door and in the workers; the
\* handlers and the workers' loops are kept going.
NextTimeout ==
    \/ \E up \in ValidUploads : analyze_document(up, <<" ", "q">>)
    \/ \E up \in ValidUploads : analyze_financial_doc(up, <<" ", "q">>)
    \/ \E up \in ValidUploads : analyze_document_async(up, <<" ", "q">>, "normal")
    \/ \E o \in StageOutcome : FrontDoorStage(o)
    \/ FrontDoorHang
    \/ start_worker("w1", NoNames)
    \/ WorkerDequeue("w1")
    \/ \E o \in StageOutcome : WorkerStage("w1", o)
    \/ WorkerHang("w1")
    \/ WorkerTimeout("w1")

TimeoutFairness ==
    /\ WF_vars(\E o \in StageOutcome : FrontDoorStage(o))
    /\ WF_vars(WorkerDequeue("w1"))
    /\ WF_vars(\E o \in StageOutcome : WorkerStage("w1", o))
    /\ WF_vars(WorkerTimeout("w1"))

SpecTimeout == Init /\ [][NextTimeout]_vars /\ TimeoutFairness

\* The paths handed to queue_financial_analysis: files of the data directory
\* and a file of the same name in another directory.
SubmitPaths == {SAMPLE_PATH, FilePath(1), <<"uploads", 1>>}

\* queue_financial_analysis called directly, while the clock runs and Redis
\* comes and goes.
NextSubmit ==
    \/ \E f \in SubmitPaths, p \in NamedPriorities : SubmitDirect(f, <<"q">>, p)
    \/ Tick
    \/ RedisToggle

SpecSubmit == Init /\ [][NextSubmit]_vars

\* The ages a cleanup pass is asked to keep.
MaxAges == {0, 1}

\* Jobs submitted and worked off while the clock runs, and cleanup passes.
NextCleanup ==
    \/ \E up \in ValidUploads : analyze_document_async(up, <<" ", "q">>, "normal")
    \/ \E o \in StageOutcome : FrontDoorStage(o)
    \/ start_worker("w1", NoNames)
    \/ WorkerDequeue("w1")
    \/ \E o \in StageOutcome : WorkerStage("w1", o)
    \/ Tick
    \/ \E h \in MaxAges : cleanup_old_jobs(h)

SpecCleanup == Init /\ [][NextCleanup]_vars

\* Query texts: empty, blank, padded on the left, on the right, on both sides.
PaddedQueries ==
    {<<>>, <<" ">>, <<" ", "q">>, <<"q", " ">>, <<" ", "q", " ", "r", " ">>}

\* Every endpoint that starts the pipeline, with every kind of query text,
\* and a worker for the jobs.
NextQuery ==
    \/ \E up \in ValidUploads, q \in PaddedQueries : analyze_document(up, q)
    \/ \E up \in ValidUploads, q \in PaddedQueries :
          analyze_document_async(up, q, "normal")
    \/ \E up \in ValidUploads \cup {NoUpload}, q \in PaddedQueries :
          analyze_financial_doc(up, q)
    \/ \E q \in PaddedQueries : analyze_sample_document(q)
    \/ \E o \in StageOutcome : FrontDoorStage(o)
    \/ start_worker("w1", NoNames)
    \/ WorkerDequeue("w1")
    \/ \E o \in StageOutcome : WorkerStage("w1", o)

SpecQuery == Init /\ [][NextQuery]_vars

\* What a page of a PDF may hold: nothing, blanks only, or text with blanks
\* and newlines in and around it.
PageContents ==
    {<<>>, <<" ", "\n">>, <<"a">>,
     <<" ", "a", " ", " ", "b", "\n", "\n", "\n", "a", "\n">>}

MaxPages == 2

\* What PyPDFLoader(path).load() may do: raise on a corrupt file, or return
\* the list of pages (empty when nothing can be extracted).
Loads ==
    {[raises |-> TRUE, docs |-> <<>>]}
        \cup {[raises |-> FALSE, docs |-> d] :
                 d \in UNION {[1..n -> PageContents] : n \in 0..MaxPages}}

\* What may be at the path given to the reader.
Documents == [exists : BOOLEAN, ext : {"pdf", "PDF", "txt"}, load : Loads]

NextReader == \E doc \in Documents : ReadDocument(doc)

SpecReader == Init /\ [][NextReader]_vars

\* n copies of a piece of text, one after another.
RECURSIVE Repeated(_, _)
Repeated(piece, n) == IF n = 0 THEN <<>> ELSE piece \o Repeated(piece, n - 1)

\* The texts given to the risk tool: "debt " and "Loss " repeated, around
\* padding that holds no keyword.
RiskPadding == {<<>>, <<" ">>, <<" ", "\n">>, <<"x", "\n">>}

RiskText(debts, pad, losses) ==
    Repeated(<<"D", "e", "b", "t", " ">>, debts) \o pad
        \o Repeated(<<"l", "o", "s", "s", "e", "s", " ">>, losses)

RiskTexts ==
    {RiskText(d, pad, l) : d \in 0..MaxMentions, pad \in RiskPadding, l \in 0..2}

NextRisk == \E text \in RiskTexts : AssessRisk(text)

SpecRisk == Init /\ [][NextRisk]_vars

\* The job ids a client may ask for: those of the jobs the bounds admit and
\* one that no job has.
AskedIds ==
    {JobId(0, FilePath(u)) : u \in 1..MaxUuid} \cup {JobId(0, SAMPLE_PATH)}

\* The status lookups next to the queue and one default worker, with Redis
\* going down and coming back.
NextStatus ==
    \/ \E up \in ValidUploads : analyze_document_async(up, <<" ", "q">>, "normal")
    \/ \E o \in StageOutcome : FrontDoorStage(o)
    \/ start_worker("w1", NoNames)
    \/ WorkerDequeue("w1")
    \/ \E o \in StageOutcome : WorkerStage("w1", o)
    \/ RedisToggle
    \/ \E j \in AskedIds : get_analysis_status(j)

SpecStatus == Init /\ [][NextStatus]_vars

\* The store, driven through the operations of DatabaseOperations.
NextStore ==
    \/ create_analysis_result(Processing, NoJob)
    \/ \E r \in 1..MaxUuid, u \in StoreUpdates :
          update_analysis_status(r, u[1], u[2], u[3])

SpecStore == Init /\ [][NextStore]_vars

\* The store and the queue while the clock runs, with the cleanup passes of
\* both.
NextRetention ==
    \/ create_analysis_result(Processing, NoJob)
    \/ \E r \in 1..MaxUuid, u \in StoreUpdates :
          update_analysis_status(r, u[1], u[2], u[3])
    \/ \E d \in MaxAges : cleanup_old_records(d)
    \/ \E up \in ValidUploads : analyze_document_async(up, <<" ", "q">>, "normal")
    \/ \E o \in StageOutcome : FrontDoorStage(o)
    \/ start_worker("w1", NoNames)
    \/ WorkerDequeue("w1")
    \/ \E o \in StageOutcome : WorkerStage("w1", o)
    \/ \E h \in MaxAges : cleanup_old_jobs(h)
    \/ Tick

SpecRetention == Init /\ [][NextRetention]_vars

\* The queue module's functions called from the web process and from one
\* worker process, with Redis going down and coming back.
NextAvailability ==
    \/ \E up \in ValidUploads : analyze_document_async(up, <<" ", "q">>, "normal")
    \/ \E o \in StageOutcome : FrontDoorStage(o)
    \/ \E j \in AskedIds : get_analysis_status(j)
    \/ get_analysis_queue_stats
    \/ LoadQueueModule("w1")
    \/ start_worker_loaded("w1", NoNames)
    \/ WorkerDequeue("w1")
    \/ \E o \in StageOutcome : WorkerStage("w1", o)
    \/ RedisToggle

SpecAvailability == Init /\ [][NextAvailability]_vars

\* The analyses whose reports are saved.
ReportQueries == {<<"q">>, DEFAULT_QUERY}

ReportPaths == {SAMPLE_PATH, FilePath(1)}

\* Reports saved one after another while the clock runs.
NextReports ==
    \/ \E q \in ReportQueries, path \in ReportPaths, kind \in {"text", "unsuitable"} :
          save_output_report(q, path, TaskOutput("investment_analysis", q, path, kind))
    \/ Tick

SpecReports == Init /\ [][NextReports]_vars

\* The whole system.
Next ==
    NextRisk \/ NextReports \/ NextAvailability \/ NextRetention \/ NextFrontDoor \/ NextQueue \/ NextStatus \/ NextTimeout \/ NextSubmit \/ NextCleanup \/ NextQuery \/ NextReader \/ NextStore \/ Tick

Spec == Init /\ [][Next]_vars

\* ------------------------------------------------------------------ claims
IsPrefix(a, b) == Len(a) <= Len(b) /\ a = SubSeq(b, 1, Len(a))

\* The job ids of a log's entries that belong to one lane, in log order.
RECURSIVE OnLane(_, _)
OnLane(log, lane) ==
    IF log = <<>> THEN <<>>
    ELSE IF Head(log)[2] = lane
         THEN <<Head(log)[1]>> \o OnLane(Tail(log), lane)
         ELSE OnLane(Tail(log), lane)

\* One stage after the other: each started, then ended, in list order.
RECURSIVE OneAtATime(_)
OneAtATime(tasks) ==
    IF tasks = <<>> THEN <<>>
    ELSE <<<<"start", Head(tasks)>>, <<"end", Head(tasks)>>>> \o OneAtATime(Tail(tasks))

Runs == {fdrun} \cup {worker[w].run : w \in Workers}

\* C1: in a run whose verification stage fails or reports the document
\* unsuitable no later stage is invoked, and the result of the run is tagged
\* verification_failed.
C1_GateStopsPipeline ==
    (fdrun.state # "none" /\ fdrun.verdict \in {"raise", "unsuitable"})
        => /\ Started(fdrun.events) = <<"verification">>
           /\ fpc = "done"
                => ("outcome" \in DOMAIN resp /\ resp.outcome = "verification_failed")

\* C2: an async submission of a valid, non-empty PDF for which
\* queue_financial_analysis returned no job id runs the pipeline inline, and
\* when the pipeline returns the caller gets a success response that carries
\* fallback_used = TRUE and the analysis the sync path produces.
C2_FallbackServesInline ==
    (fpc = "done" /\ req.endpoint = "analyze_async" /\ QUEUE_AVAILABLE
        /\ req.upload \in ValidUploads /\ fdq = NoJob)
        => /\ fdrun.state # "none"
           /\ fdrun.state = "returned"
                => /\ resp.status = "success"
                   /\ "fallback_used" \in DOMAIN resp
                   /\ resp.fallback_used = TRUE
                   /\ resp.analysis = fdrun.result

Allowed ==
    {<<"queued", "processing">>, <<"processing", "completed">>,
     <<"processing", "failed">>}

\* C4: a status changes only along queued -> processing -> completed or
\* failed; marking a queued record completed is rejected and leaves its
\* status as it was.
C4_OnlyAllowedTransitions ==
    lastUpdate.applied
        => /\ lastUpdate.before # lastUpdate.status
                => <<lastUpdate.before, lastUpdate.status>> \in Allowed
           /\ (lastUpdate.before = "queued" /\ lastUpdate.status = "completed")
                => records[lastUpdate.id].status = "queued"

\* The head of the highest lane that holds a job: high, then normal, then low.
NextByPriority ==
    IF lanes["high_priority"] # <<>> THEN Head(lanes["high_priority"])
    ELSE IF lanes["analysis"] # <<>> THEN Head(lanes["analysis"])
    ELSE Head(lanes["low_priority"])

\* C5: whenever a worker started with the default queue list takes a job, it
\* is the oldest job of the high lane if that lane holds one, otherwise of
\* the normal lane, otherwise of the low lane.
C5_DefaultWorkerStrictPriority ==
    [][\A w \in Workers :
          (worker[w].state = "idle" /\ worker'[w].state = "busy"
              /\ worker[w].queue_names = NoNames)
              => worker'[w].job = NextByPriority]_vars

\* A normal job was enqueued first, a high job second, and a worker with the
\* default list took the high job first.
C5_Witness ==
    /\ Len(enqLog) = 2
    /\ enqLog[1][2] = "analysis"
    /\ enqLog[2][2] = "high_priority"
    /\ Len(deqLog) >= 1
    /\ deqLog[1][1] = enqLog[2][1]
    /\ worker[deqLog[1][3]].queue_names = NoNames

\* C6: the jobs of one lane are handed to workers in the order in which they
\* were enqueued on it.
C6_FifoPerLane ==
    \A l \in Lanes : IsPrefix(OnLane(deqLog, l), OnLane(enqLog, l))

\* Two jobs of one lane, both dequeued.
C6_Witness ==
    \E l \in Lanes : Len(OnLane(deqLog, l)) = 2

\* C7: in every run of run_crew the stages run one at a time in the order
\* verification, financial analysis, investment analysis, risk assessment.
C7_StagesInDeclaredOrder ==
    \A run \in Runs :
        run.state # "none"
            => IsPrefix(run.events,
                        OneAtATime(<<"verification", "analyze_financial_document",
                                     "investment_analysis", "risk_assessment">>))

\* One job has gone through all four stages (its result is the output of
\* the last one) and a worker's run of another has ended three stages and is
\* about to start the fourth.
C7_Witness ==
    /\ \E j \in DOMAIN jobs :
          /\ jobs[j].status = "finished"
          /\ jobs[j].result.stage = "risk_assessment"
    /\ \E w \in Workers :
          /\ worker[w].run.state = "running"
          /\ worker[w].run.idx = 4
          /\ Len(worker[w].run.events) = 6

\* C8: a 0-byte upload ends in a validation error (4xx) and no run_crew.
C8_EmptyFileRejected ==
    (req.upload.given /\ req.upload.size = 0)
        => /\ fdrun.state = "none"
           /\ fpc = "done" => (resp.status = "error" /\ resp.code \in 400..499)

\* C9: without the queue feature a call of analyze_document_async does
\* exactly what analyze_document does on the same upload and query: the same
\* response or the same inline run_crew, the same files and records, and
\* nothing is enqueued; when that run returns, its result is the analysis of
\* the response.
C9_NoQueueActsAsSync ==
    [][(req'.endpoint = "analyze_async" /\ ~QUEUE_AVAILABLE)
          => /\ UNCHANGED <<lanes, jobs, enqLog>>
             /\ fdq' = NotCalled
             /\ nextUuid' # nextUuid
                  => LET sync == AnalyzeDocumentEntry(req'.upload, req'.query, files,
                                                      records, nextUuid)
                     IN  /\ fpc' = sync.kind
                         /\ resp' = sync.resp
                         /\ fdrun' = sync.run
                         /\ files' = sync.files
                         /\ records' = sync.records
                         /\ fdDb' = sync.db
                         /\ nextUuid' = sync.uuid
             /\ (fpc = "crew" /\ fpc' = "done" /\ fdrun'.state = "returned")
                  => /\ resp'.status = "success"
                     /\ resp'.analysis = fdrun'.result
                     /\ resp'.query = CleanQuery(req.query)]_vars

\* An async submission served inline with success while the queue feature is
\* not there.
C9_Witness ==
    /\ req.endpoint = "analyze_async"
    /\ ~QUEUE_AVAILABLE
    /\ fpc = "done"
    /\ resp.status = "success"

IsJobId(x) == x # NoJob /\ x # NotCalled

\* C10: when the enqueue succeeds the async submission answers with the job
\* handle (queued, the job id, /job-status/<job id>) and the front door runs
\* no pipeline for it; a job's pipeline is run by the worker that holds it.
C10_QueuedReturnsHandle ==
    /\ (req.endpoint = "analyze_async" /\ IsJobId(fdq))
          => /\ fpc = "done"
             /\ fdrun = NoRun
             /\ resp.status = "queued"
             /\ resp.job_id = fdq
             /\ resp.check_status_url = <<"/job-status/", fdq>>
    /\ \A j \in DOMAIN jobs :
          /\ fdrun.state # "none" => fdrun.file # jobs[j].file
          /\ \A w \in Workers :
                (worker[w].run.state # "none" /\ worker[w].run.file = jobs[j].file)
                    => worker[w].job = j

\* A queued submission whose job a worker has meanwhile finished.
C10_Witness ==
    /\ req.endpoint = "analyze_async"
    /\ fpc = "done"
    /\ resp.status = "queued"
    /\ IsJobId(fdq)
    /\ jobs[fdq].status = "finished"

Terminal == {"finished", "failed"}

\* A worker that is running (it was started and has not exited) serves lane.
Served(lane) ==
    \E w \in Workers :
        /\ worker[w].state \in {"idle", "busy"}
        /\ \E i \in 1..Len(worker[w].queues) : worker[w].queues[i] = lane

\* The jobs on a served lane that have not ended yet.
Unfinished ==
    {j \in DOMAIN jobs : Served(jobs[j].origin) /\ jobs[j].status \notin Terminal}

Refused(up) == up.given /\ (~EndsWithPdf(up) \/ up.size > MaxUploadBytes)

\* C13: a call of /analyze or /analyze-async (bonus_main) with an upload that
\* is not a .pdf or is over 10 MB answers 400 and leaves everything as it
\* was: no file in the data directory, no record, no job on a lane, no run.
C13_RefusedBeforeAllocation ==
    [][(nextUuid' # nextUuid /\ req'.endpoint \in {"analyze", "analyze_async"}
            /\ Refused(req'.upload))
          => /\ fpc' = "done"
             /\ resp'.status = "error"
             /\ resp'.code = 400
             /\ fdrun' = NoRun
             /\ UNCHANGED <<files, records, lanes, jobs, enqLog>>]_vars

\* An oversized PDF was refused by /analyze-async while the queue was there.
C13_Witness ==
    /\ req.endpoint = "analyze_async"
    /\ QUEUE_AVAILABLE
    /\ redisUp
    /\ EndsWithPdf(req.upload)
    /\ req.upload.size > MaxUploadBytes
    /\ fpc = "done"
    /\ resp.code = 400

\* C14: once a worker has ended a job, the store holds the job's record with
\* the terminal status: completed with the pipeline's result, or failed with
\* an error message.
C14_RecordFollowsJob ==
    \A j \in DOMAIN jobs :
        jobs[j].status \in Terminal
            => \E r \in DOMAIN records :
                  /\ records[r].job_id = j
                  /\ jobs[j].status = "finished"
                       => /\ records[r].status = "completed"
                          /\ records[r].analysis_result = jobs[j].result
                  /\ jobs[j].status = "failed"
                       => /\ records[r].status = "failed"
                          /\ records[r].error_message # None

\* C15: every job on record in the queue (an async submission that was
\* enqueued) has, with the database feature there, a record in the store
\* that carries the job's id and, while the job waits, the status queued.
C15_QueuedRecordCreated ==
    DATABASE_AVAILABLE
        => \A j \in DOMAIN jobs :
              \E r \in DOMAIN records :
                  /\ records[r].job_id = j
                  /\ jobs[j].status = "queued" => records[r].status = "queued"

\* How far a status is along queued -> processing -> completed | failed
\* (rq calls them queued, started, finished, failed).
Rank(status) ==
    CASE status = "queued" -> 0
      [] status \in {"started", "processing"} -> 1
      [] status \in {"finished", "completed", "failed"} -> 2

C18_StoreFailureNeverAborts ==
    (fpc = "done" /\ req.endpoint \in {"analyze", "analyze_sample"} /\ fdrun = NoRun)
    => \/ resp.code \in {400, 404}
       \/ resp = SaveUploadError(HttpError(400, "Empty file uploaded"))

\* C18: a synchronous analysis (of an upload or of the sample document) whose
\* crew returned normally answers with success, the cleaned query and the
\* crew's output, whatever happened to the creation or the update of its
\* stored record.
C18_StoreFailureKeepsResponse ==
    /\ C18_StoreFailureNeverAborts
    /\ (fpc = "done" /\ req.endpoint \in {"analyze", "analyze_sample"}
          /\ fdrun # NoRun /\ fdrun.state = "returned")
       => /\ resp.status = "success"
          /\ resp.code = 200
          /\ resp.analysis = fdrun.result
          /\ resp.query = CleanQuery(req.query)

\* The store was available, the creation of the record failed (no record is
\* held), and the analysis was returned as a success.
C18_Witness ==
    /\ fpc = "done"
    /\ req.endpoint \in {"analyze", "analyze_sample"}
    /\ DATABASE_AVAILABLE
    /\ fdDb = 0
    /\ fdrun # NoRun
    /\ fdrun.state = "returned"
    /\ resp.status = "success"
    /\ resp.analysis = fdrun.result

\* A call of /analyze-async that reaches queue_financial_analysis: the queue
\* feature is there and the upload passed the handler's validation.
ReachesQueue ==
    /\ nextUuid' # nextUuid
    /\ req'.endpoint = "analyze_async"
    /\ QUEUE_AVAILABLE
    /\ EndsWithPdf(req'.upload)
    /\ req'.upload.size <= MaxUploadBytes
    /\ FileRead(req'.upload) # 0

\* C19: queue_financial_analysis always returns to its caller; without a
\* connection it returns no job id and leaves lanes and jobs as they were, an
\* exception inside enqueue gives no job id either, and a job id that is
\* returned is that of a job just placed at the tail of one lane as queued.
C19_QueueCallFailsFast ==
    [][ReachesQueue
          => /\ fdq' # NotCalled
             /\ fdq' # Raised
             /\ redis_conn = None
                   => fdq' = NoJob /\ UNCHANGED <<lanes, jobs, enqLog>>
             /\ ~redisUp => fdq' = NoJob
             /\ fdq' # NoJob
                   => /\ \E lane \in DOMAIN lanes :
                            /\ lanes'[lane] = Append(lanes[lane], fdq')
                            /\ \A other \in DOMAIN lanes \ {lane} :
                                  lanes'[other] = lanes[other]
                      /\ fdq' \in DOMAIN jobs'
                      /\ jobs'[fdq'].status = "queued"]_vars

\* The connection was made when the module was loaded, Redis went away, and
\* a call that reached queue_financial_analysis came back without a job id.
C19_Witness ==
    /\ req.endpoint = "analyze_async"
    /\ QUEUE_AVAILABLE
    /\ redis_conn # None
    /\ ~redisUp
    /\ fdq = NoJob

\* C20: for every request served in the handler itself (main.py's /analyze,
\* bonus_main's /analyze and /analyze-sample, and /analyze-async when it falls
\* back), a response with status success is given only after run_crew
\* returned, and a run_crew that raised ends the request with an error
\* response of code 500.
C20_PipelineFailureReachesCaller ==
    fpc = "done"
    => /\ resp.status = "success"
            => fdrun # NoRun /\ fdrun.state = "returned"
       /\ (fdrun # NoRun /\ fdrun.state = "raised")
            => resp.status = "error" /\ resp.code = 500

\* A stage after the first raised inside run_crew and the request ended
\* with an error response.
C20_Witness ==
    /\ fpc = "done"
    /\ fdrun # NoRun
    /\ fdrun.state = "raised"
    /\ fdrun.idx > 1
    /\ resp.status = "error"

\* C21: a request that has called run_crew is answered, and a worker that has
\* taken a job ends it, even when a stage never returns.
C21_EveryRunEnds ==
    /\ (fpc = "crew") ~> (fpc = "done")
    /\ (worker["w1"].state = "busy") ~> (worker["w1"].state = "idle")

\* C21, the queued half alone: a worker that has taken a job ends it.
C21_QueuedJobEnds ==
    (worker["w1"].state = "busy") ~> (worker["w1"].state = "idle")

\* C22: no two calls of queue_financial_analysis that returned a job id
\* returned the same one.
C22_JobIdsUnique ==
    \A i, j \in DOMAIN enqLog : i # j => enqLog[i][1] # enqLog[j][1]

\* C23: after a cleanup pass no finished or failed job that ended before the
\* pass's cutoff can still be fetched.
C23_CleanupRemovesOldJobs ==
    cleanup.ran
    => \A id \in DOMAIN jobs :
          ~(/\ jobs[id].status \in {"finished", "failed"}
            /\ jobs[id].ended_at # NotEnded
            /\ jobs[id].ended_at < cleanup.cutoff)

\* The lane each of the three priorities names.
LaneOfPriority == [high |-> "high_priority", normal |-> "analysis", low |-> "low_priority"]

\* C24: a job handle reports a priority that is one of high, normal, low,
\* and the job was placed on the lane of that priority.
C24_PriorityNamesLane ==
    (fpc = "done" /\ resp.status = "queued")
    => /\ resp.priority \in NamedPriorities
       /\ resp.job_id \in DOMAIN jobs
       /\ jobs[resp.job_id].origin = LaneOfPriority[resp.priority]

\* A text that is not empty and has no whitespace at either end.
NonBlank(q) == q # <<>> /\ Head(q) # " " /\ q[Len(q)] # " "

\* The query the request's pipeline is to get: the request's text without
\* the whitespace around it, or the endpoint's default when nothing is left.
ExpectedQuery ==
    IF Strip(req.query) # <<>> THEN Strip(req.query)
    ELSE IF req.endpoint = "main_analyze" THEN MAIN_DEFAULT_QUERY
    ELSE DEFAULT_QUERY

\* C25: every run_crew call of a handler, every job on a lane and every run
\* of a worker has a query that is not blank; the handler's run and the job
\* it enqueued have the request's query stripped, or the default prompt when
\* the request's query is empty or whitespace only.
C25_QueryNeverBlank ==
    /\ fdrun # NoRun => fdrun.query = ExpectedQuery /\ NonBlank(fdrun.query)
    /\ (fpc = "done" /\ resp.status = "queued" /\ resp.job_id \in DOMAIN jobs)
          => jobs[resp.job_id].query = ExpectedQuery
    /\ \A id \in DOMAIN jobs : NonBlank(jobs[id].query)
    /\ \A w \in Workers : worker[w].run # NoRun => NonBlank(worker[w].run.query)

\* A request with a whitespace-only query ran the pipeline on the default
\* prompt, and a job enqueued from a padded query is run by a worker.
C25_Witness ==
    /\ fdrun # NoRun
    /\ req.query = <<" ">>
    /\ fdrun.query = DEFAULT_QUERY
    /\ worker["w1"].run # NoRun
    /\ worker["w1"].run.query = <<"q", " ", "r">>

\* C26: the document reader always returns a text; it is an error text when
\* no file is at the path, when the path is not a PDF's, when the loader
\* raises (a corrupt file), when the loader returns no page and when no page
\* has readable content; otherwise it is the report of the readable pages.
C26_ReaderNeverRaises ==
    tool.called
    => /\ tool.out.kind \in {"error", "report"}
       /\ ~tool.doc.exists => tool.out = ErrorText("Error: File not found at path")
       /\ (tool.doc.exists /\ tool.doc.ext = "txt")
             => tool.out = ErrorText("Error: File must be a PDF")
       /\ (tool.doc.exists /\ tool.doc.ext # "txt" /\ tool.doc.load.raises)
             => tool.out = ErrorText("Error reading PDF file")
       /\ (tool.doc.exists /\ tool.doc.ext # "txt" /\ ~tool.doc.load.raises
             /\ \A i \in DOMAIN tool.doc.load.docs :
                   \A k \in DOMAIN tool.doc.load.docs[i] :
                       tool.doc.load.docs[i][k] \in Whitespace)
             => tool.out.kind = "error"
       /\ tool.out.kind = "report"
             => /\ tool.out.text # <<>>
                /\ \A i \in DOMAIN tool.out.text :
                      \E k \in DOMAIN tool.out.text[i].content :
                          tool.out.text[i].content[k] \notin Whitespace

\* The reader was given an existing PDF that the loader could not read and
\* returned the error text.
C26_Witness ==
    /\ tool.called
    /\ tool.doc.exists
    /\ tool.doc.ext = "pdf"
    /\ tool.doc.load.raises
    /\ tool.out = ErrorText("Error reading PDF file")

\* C27: a run in which a stage other than the gating one (verification)
\* failed has still executed every stage of its list, and the request it
\* serves is answered with success and a note of the failure.
C27_OptionalFailureContinues ==
    (fdrun.state = "raised" /\ fdrun.tasks[fdrun.idx] # "verification")
    => /\ Started(fdrun.events) = fdrun.tasks
       /\ fpc = "done" => resp.status = "success"

\* The lanes from the highest priority to the lowest.
PriorityOrder == <<"high_priority", "analysis", "low_priority">>

\* The lanes a worker serves, from the highest priority to the lowest.
ServedInPriorityOrder(w) ==
    SelectSeq(PriorityOrder,
              LAMBDA l : \E i \in DOMAIN worker[w].queues : worker[w].queues[i] = l)

\* C28: whenever a worker started with queue names on its command line takes
\* a job, it is the oldest job of the highest-priority lane, among those it
\* serves, that holds one.
C28_NamedWorkerStrictPriority ==
    [][\A w \in Workers :
          (worker[w].state = "idle" /\ worker'[w].state = "busy"
              /\ worker[w].queue_names.given)
              => worker'[w].job =
                    Head(lanes[FirstNonEmpty(ServedInPriorityOrder(w), lanes)])]_vars

C30_AsyncLeavesNoOrphanFile ==
    (fpc = "done" /\ req.endpoint = "analyze_async")
    => \A f \in files \ {SAMPLE_PATH} :
          \E i \in DOMAIN enqLog : jobs[enqLog[i][1]].file = f

C31_NoRecordLeftProcessing ==
    (fpc = "done" /\ fdDb \in DOMAIN records)
    => records[fdDb].status \in {"completed", "failed"}

\* C32: no step removes a job that is queued or started, nor a record that
\* is queued or processing; the cleanup passes are the only steps that
\* remove anything.
C32_CleanupKeepsUnfinished ==
    [][/\ \A id \in DOMAIN jobs :
             jobs[id].status \in {"queued", "started"}
                => id \in DOMAIN jobs' /\ jobs'[id].file = jobs[id].file
       /\ \A r \in DOMAIN records :
             records[r].status \in {"queued", "processing"}
                => r \in DOMAIN records']_vars

\* C33: queue availability is decided once, when the queue module is loaded.
\* The connection a process holds never changes after its load; and in a
\* process whose load found Redis unreachable, whether Redis is reachable now
\* or not, queue_financial_analysis returns no job id and queues nothing,
\* /job-status and /queue-stats answer with an error and nothing else, and
\* start_worker returns without serving.
C33_AvailabilityDecidedAtLoad ==
    /\ [](redis_conn = None
            => /\ \A path \in SubmitPaths, p \in NamedPriorities :
                     queue_financial_analysis(path, <<"q">>, p).job_id = NoJob
               /\ fdq \in {NotCalled, NoJob}
               /\ enqLog = <<>> /\ DOMAIN jobs = {}
               /\ statusResp.asked # NoJob => DOMAIN statusResp.body = {"error"}
               /\ \A j \in AskedIds : DOMAIN get_job_status(j) = {"error"}
               /\ statsResp.asked => DOMAIN statsResp.body = {"error"}
               /\ DOMAIN get_queue_stats = {"error"})
    /\ [](\A w \in Workers :
            worker_conn[w] = None
               => worker[w].state \in {"stopped", "exited"} /\ deqLog = <<>>)
    /\ [][/\ redis_conn' = redis_conn
          /\ \A w \in Workers :
                worker_conn[w] # NotLoaded => worker_conn'[w] = worker_conn[w]]_vars

\* Redis was down at both loads and is reachable now: the upload was analysed
\* inline for want of a job id, both lookups answered, the worker has returned.
C33_Witness ==
    /\ redis_conn = None /\ redisUp
    /\ fdq = NoJob /\ fpc = "done"
    /\ statusResp.asked # NoJob
    /\ statsResp.asked
    /\ worker_conn["w1"] = None /\ worker["w1"].state = "exited"

\* C34: each analysis gets its own output report file and save_output_report
\* never overwrites an earlier report: every report that was saved is still
\* in the output folder, under the path its call returned, as it was written.
C34_ReportNeverOverwritten ==
    \A i \in DOMAIN output.log :
        /\ output.log[i].path \in DOMAIN output.dir
        /\ output.dir[output.log[i].path] = output.log[i].report

\* The level the claim gives for a number of mentions.
StatedLevel(n) ==
    CASE n \in 0..5 -> "Low"
      [] n \in 6..10 -> "Low-Medium"
      [] n \in 11..20 -> "Medium"
      [] OTHER -> "High"

LevelRank(level) ==
    CASE level = "Low" -> 0
      [] level = "Low-Medium" -> 1
      [] level = "Medium" -> 2
      [] level = "High" -> 3

\* The words "debt" and "loss" of a text, counted one character at a time and
\* without regard to case.
WordsIn(s) ==
    Cardinality({i \in 1..(Len(s) - 3) :
                    \/ /\ s[i] \in {"d", "D"} /\ s[i + 1] \in {"e", "E"}
                       /\ s[i + 2] \in {"b", "B"} /\ s[i + 3] \in {"t", "T"}
                    \/ /\ s[i] \in {"l", "L"} /\ s[i + 1] \in {"o", "O"}
                       /\ s[i + 2] \in {"s", "S"} /\ s[i + 3] \in {"s", "S"}})

\* C35: the risk level RiskTool reports is a monotone step function of the
\* number of risk-keyword occurrences in the text: Low for 0 to 5, Low-Medium
\* for 6 to 10, Medium for 11 to 20, High from 21 on; for an empty or blank
\* text the answer is an error text without a risk level.
C35_RiskLevelSteps ==
    /\ (tool.called /\ "data" \in DOMAIN tool)
          => IF \A i \in DOMAIN tool.data : tool.data[i] \in Whitespace
             THEN /\ tool.out.kind = "error"
                  /\ "overall_risk_level" \notin DOMAIN tool.out
             ELSE /\ tool.out.kind = "summary"
                  /\ tool.out.total_risk_mentions = WordsIn(tool.data)
                  /\ tool.out.overall_risk_level = StatedLevel(WordsIn(tool.data))
    /\ \A m, n \in 0..(MaxMentions + 2) :
          m <= n => LevelRank(RiskLevel(m)) <= LevelRank(RiskLevel(n))

\* A text with 21 mentions, in mixed case, was assessed as High.
C35_Witness ==
    /\ tool.called /\ "data" \in DOMAIN tool
    /\ WordsIn(tool.data) = 21
    /\ tool.out.kind = "summary"
    /\ tool.out.overall_risk_level = "High"

====
